---- MODULE Spec2Model ----
(***************************************************************************)
(* Model of get-napi-info/generate-matrix.js: the platform registry        *)
(* (getPlatformConfig) and the matrix generator (action).                  *)
(*                                                                         *)
(* A JavaScript string is a sequence of pieces.  A piece is either one     *)
(* special character (white space, line terminator, double quote,          *)
(* backslash) or a run of ordinary characters.  Value(s) is the string     *)
(* itself; two piece sequences with the same Value are the same string.    *)
(***************************************************************************)
EXTENDS Integers, Sequences, FiniteSets, TLC

\* ------------------------------------------------------------------------
\* Bounds of the model
\* ------------------------------------------------------------------------

\* Longest napi.targets list drawn from the mixed pool of declared elements.
MaxTargets == 3

\* Number of invocations made one after the other in SpecRepeat.
MaxInvocations == 3

\* ------------------------------------------------------------------------
\* Strings
\* ------------------------------------------------------------------------

\* Characters String.prototype.trim strips (those the model's inputs use).
WhiteSpace == {" ", "\t", "\n", "\r", "\f"}

RECURSIVE Value(_)
Value(s) == IF s = <<>> THEN "" ELSE Head(s) \o Value(Tail(s))

RECURSIVE TrimStart(_)
TrimStart(s) ==
  IF s # <<>> /\ Head(s) \in WhiteSpace THEN TrimStart(Tail(s)) ELSE s

RECURSIVE TrimEnd(_)
TrimEnd(s) ==
  IF s # <<>> /\ s[Len(s)] \in WhiteSpace
  THEN TrimEnd(SubSeq(s, 1, Len(s) - 1))
  ELSE s

\* Trim as it would be if only the end of the string were stripped
TrimEndOnly(s) == TrimEnd(s)

\* String.prototype.trim
Trim(s) == TrimEnd(TrimStart(s))

\* RemoveLineBreaks as it would be without the g flag: the first match only
RECURSIVE RemoveFirstLineBreak(_)
RemoveFirstLineBreak(s) ==
  IF s = <<>> THEN <<>>
  ELSE IF Len(s) >= 2 /\ s[1] = "\r" /\ s[2] = "\n" THEN SubSeq(s, 3, Len(s))
  ELSE IF s[1] = "\n" \/ s[1] = "\r" THEN Tail(s)
  ELSE <<Head(s)>> \o RemoveFirstLineBreak(Tail(s))

\* s.replace(/\r?\n|\r/g, ''): scan left to right, dropping each match.
RECURSIVE RemoveLineBreaks(_)
RemoveLineBreaks(s) ==
  IF s = <<>> THEN <<>>
  ELSE IF Len(s) >= 2 /\ s[1] = "\r" /\ s[2] = "\n"
       THEN RemoveLineBreaks(SubSeq(s, 3, Len(s)))
  ELSE IF s[1] = "\n" \/ s[1] = "\r"
       THEN RemoveLineBreaks(Tail(s))
  ELSE <<Head(s)>> \o RemoveLineBreaks(Tail(s))

\* const cleanTarget = target.trim().replace(/\r?\n|\r/g, '')
CleanTarget(s) == RemoveLineBreaks(Trim(s))

\* Array.prototype.join on an array of strings
RECURSIVE Join(_, _)
Join(list, sep) ==
  IF list = <<>> THEN ""
  ELSE IF Len(list) = 1 THEN Value(list[1])
  ELSE Value(list[1]) \o sep \o Join(Tail(list), sep)

\* ------------------------------------------------------------------------
\* Platform registry
\* ------------------------------------------------------------------------

\* Own keys of the configs object literal, in source order.
ConfigKeys ==
  << "x86_64-apple-darwin", "x86_64-pc-windows-msvc", "i686-pc-windows-msvc",
     "x86_64-unknown-linux-gnu", "x86_64-unknown-linux-musl",
     "aarch64-apple-darwin", "aarch64-unknown-linux-gnu",
     "armv7-unknown-linux-gnueabihf", "aarch64-linux-android",
     "armv7-linux-androideabi", "aarch64-unknown-linux-musl",
     "aarch64-pc-windows-msvc", "x86_64-unknown-freebsd",
     "aarch64-unknown-freebsd", "riscv64gc-unknown-linux-gnu",
     "riscv64gc-unknown-linux-musl" >>

ConfigKeySet == {ConfigKeys[i] : i \in 1..Len(ConfigKeys)}

\* ConfigHost as it would be if the Android rows named the macOS runner
ConfigHostAndroidOnMac(key) ==
  CASE key \in {"x86_64-apple-darwin", "aarch64-apple-darwin",
                "aarch64-linux-android", "armv7-linux-androideabi"} -> "macos-latest"
    [] key \in {"x86_64-pc-windows-msvc", "i686-pc-windows-msvc",
                "aarch64-pc-windows-msvc"} -> "windows-latest"
    [] OTHER -> "ubuntu-22.04"

\* host of each entry of the configs literal
ConfigHost(key) ==
  CASE key \in {"x86_64-apple-darwin", "aarch64-apple-darwin"} -> "macos-latest"
    [] key \in {"x86_64-pc-windows-msvc", "i686-pc-windows-msvc",
                "aarch64-pc-windows-msvc"} -> "windows-latest"
    [] OTHER -> "ubuntu-22.04"

\* what follows `--target <key>` in the build template of each entry
ConfigFlags(key) ==
  CASE key = "x86_64-unknown-linux-gnu" -> <<" ", "--use-napi-cross">>
    [] key \in {"x86_64-unknown-linux-musl", "aarch64-unknown-linux-musl"}
         -> <<" ", "-x">>
    [] key \in {"aarch64-unknown-linux-gnu", "armv7-unknown-linux-gnueabihf",
                "x86_64-unknown-freebsd", "riscv64gc-unknown-linux-gnu",
                "riscv64gc-unknown-linux-musl"} -> <<" ", "--use-cross">>
    [] key = "aarch64-unknown-freebsd"
         -> <<" ", "--use-cross", " ", "--", " ",
              "-Zbuild-std=core,std,alloc,proc_macro,panic_abort">>
    [] OTHER -> <<>>

\* BuildTemplate as it would be if the flags came before --target
BuildTemplateFlagsFirst(key, napiBuildCommand) ==
  napiBuildCommand \o ConfigFlags(key) \o <<" ", "--target", " ", key>>

\* `${napiBuildCommand} --target <key><flags>`
BuildTemplate(key, napiBuildCommand) ==
  napiBuildCommand \o <<" ", "--target", " ", key>> \o ConfigFlags(key)

\* Properties every object literal inherits from Object.prototype; the
\* property read configs[target] finds them when target is no own key.
ObjectPrototypeKeys ==
  { "constructor", "toString", "toLocaleString", "valueOf", "hasOwnProperty",
    "isPrototypeOf", "propertyIsEnumerable", "__proto__",
    "__defineGetter__", "__defineSetter__",
    "__lookupGetter__", "__lookupSetter__" }

\* Values a lookup can return.  kind "entry" is a {host, target, build}
\* record of the table, "function" an inherited method, "prototype" the
\* object Object.prototype (read through __proto__), "null" is null.
NullConfig == [kind |-> "null", host |-> <<>>, target |-> <<>>, build |-> <<>>]

\* configs[target]
ConfigsGet(target, napiBuildCommand) ==
  LET key == Value(target) IN
  IF key \in ConfigKeySet
  THEN [kind |-> "entry", host |-> <<ConfigHost(key)>>, target |-> <<key>>,
        build |-> BuildTemplate(key, napiBuildCommand)]
  ELSE IF key = "__proto__"
  THEN [NullConfig EXCEPT !.kind = "prototype"]
  ELSE IF key \in ObjectPrototypeKeys
  THEN [NullConfig EXCEPT !.kind = "function"]
  ELSE [NullConfig EXCEPT !.kind = "undefined"]

\* JavaScript truthiness of a lookup result
ConfigTruthy(config) == config.kind \notin {"undefined", "null"}

\* function getPlatformConfig(target, napiBuildCommand):
\*   return configs[target] || null
getPlatformConfig(target, napiBuildCommand) ==
  LET found == ConfigsGet(target, napiBuildCommand) IN
  IF ConfigTruthy(found) THEN found ELSE NullConfig

\* ------------------------------------------------------------------------
\* JSON values, the manifest and JSON.stringify
\* ------------------------------------------------------------------------

\* A parsed JSON value: t is its type ("null", "false", "true", "number",
\* "string", "object", "array") or "undefined" for a missing property,
\* n the number, s the string, a the elements of an array.
JsValue(t, n, s, a) == [t |-> t, n |-> n, s |-> s, a |-> a]
Undefined == JsValue("undefined", 0, <<>>, <<>>)
JsNull == JsValue("null", 0, <<>>, <<>>)
JsNumber(n) == JsValue("number", n, <<>>, <<>>)
JsString(s) == JsValue("string", 0, s, <<>>)
JsArray(a) == JsValue("array", 0, <<>>, a)

\* JavaScript truthiness: !v is TRUE exactly for the falsy values
Truthy(v) ==
  ~ \/ v.t \in {"undefined", "null", "false"}
    \/ (v.t = "number" /\ v.n = 0)
    \/ (v.t = "string" /\ Value(v.s) = "")

\* IsArray as it would be if any value with members passed
IsArrayOrObject(v) == v.t \in {"array", "object"}

\* Array.isArray
IsArray(v) == v.t = "array"

\* v.length: the element count of an array, the length of a string,
\* undefined (here -1) for the other values
JsLength(v) ==
  CASE v.t = "array" -> Len(v.a)
    [] v.t = "string" -> Len(Value(v.s))
    [] OTHER -> -1

\* A parsed package.json: root is the type of the top-level value; when it
\* is an object, hasNapi says whether it has the key "napi" and napi is the
\* type of that member; when that is an object, hasTargets says whether it
\* has the key "targets" and targets is that member's value.
PackageJson(root, hasNapi, napi, hasTargets, targets) ==
  [root |-> root, hasNapi |-> hasNapi, napi |-> napi,
   hasTargets |-> hasTargets, targets |-> targets]

\* packageJson?.napi?.targets
OptionalChainTargets(packageJson) ==
  IF packageJson.root \in {"null", "undefined"} THEN Undefined
  ELSE LET napi == IF packageJson.root = "object" /\ packageJson.hasNapi
                   THEN packageJson.napi ELSE "undefined"
       IN IF napi \in {"null", "undefined"} THEN Undefined
          ELSE IF napi = "object" /\ packageJson.hasTargets
               THEN packageJson.targets
               ELSE Undefined

\* JSON.stringify of one character run or special character
EscapePiece(p) ==
  CASE p = "\"" -> "\\\""
    [] p = "\\" -> "\\\\"
    [] p = "\n" -> "\\n"
    [] p = "\r" -> "\\r"
    [] p = "\t" -> "\\t"
    [] p = "\f" -> "\\f"
    [] OTHER -> p

RECURSIVE EscapeString(_)
EscapeString(s) ==
  IF s = <<>> THEN "" ELSE EscapePiece(Head(s)) \o EscapeString(Tail(s))

\* JSON.stringify of a string
StringifyString(s) == "\"" \o EscapeString(s) \o "\""

\* Number.prototype.toString of an integer, as JSON.stringify writes it
Digit(d) ==
  CASE d = 0 -> "0" [] d = 1 -> "1" [] d = 2 -> "2" [] d = 3 -> "3"
    [] d = 4 -> "4" [] d = 5 -> "5" [] d = 6 -> "6" [] d = 7 -> "7"
    [] d = 8 -> "8" [] d = 9 -> "9"

RECURSIVE NumberToString(_)
NumberToString(n) ==
  IF n < 0 THEN "-" \o NumberToString(0 - n)
  ELSE IF n < 10 THEN Digit(n)
  ELSE NumberToString(n \div 10) \o Digit(n % 10)

RECURSIVE StringifyElement(_), StringifyElements(_)

\* StringifyElement as it would be if the cleaned identifier were published
StringifyCleanedElement(v) ==
  CASE v.t = "string" -> StringifyString(CleanTarget(v.s))
    [] v.t = "null" -> "null"
    [] v.t = "true" -> "true"
    [] v.t = "false" -> "false"
    [] v.t = "number" -> NumberToString(v.n)
    [] v.t = "array" -> "[" \o StringifyElements(v.a) \o "]"
    [] v.t = "object" -> "{}"

\* JSON.stringify of an element of napi.targets; an object of the model
\* has no members
StringifyElement(v) ==
  CASE v.t = "string" -> StringifyString(v.s)
    [] v.t = "null" -> "null"
    [] v.t = "true" -> "true"
    [] v.t = "false" -> "false"
    [] v.t = "number" -> NumberToString(v.n)
    [] v.t = "array" -> "[" \o StringifyElements(v.a) \o "]"
    [] v.t = "object" -> "{}"

\* JSON.stringify of an element of matrixItems: a function inside an
\* array serializes as null, Object.prototype has no own enumerable keys.
StringifyConfig(config) ==
  CASE config.kind = "entry" ->
         "{\"host\":" \o StringifyString(config.host)
           \o ",\"target\":" \o StringifyString(config.target)
           \o ",\"build\":" \o StringifyString(config.build) \o "}"
    [] config.kind = "prototype" -> "{}"
    [] OTHER -> "null"

\* the elements of an array, comma separated
StringifyElements(list) ==
  IF list = <<>> THEN ""
  ELSE IF Len(list) = 1 THEN StringifyElement(list[1])
  ELSE StringifyElement(list[1]) \o "," \o StringifyElements(Tail(list))

RECURSIVE StringifyConfigs(_)
StringifyConfigs(list) ==
  IF list = <<>> THEN ""
  ELSE IF Len(list) = 1 THEN StringifyConfig(list[1])
  ELSE StringifyConfig(list[1]) \o "," \o StringifyConfigs(Tail(list))

\* JSON.stringify(napiTargets)
StringifyTargets(list) == "[" \o StringifyElements(list) \o "]"

\* JSON.stringify({ settings: matrixItems })
StringifyMatrix(items) == "{\"settings\":[" \o StringifyConfigs(items) \o "]}"

\* ------------------------------------------------------------------------
\* path.dirname (POSIX), on a path whose pieces are "/" or a run of
\* characters without "/"
\* ------------------------------------------------------------------------

\* The backward scan: the index of the last "/" that precedes a non-"/"
\* piece, looking at positions Len(path) down to 2; 0 when there is none.
RECURSIVE DirnameEnd(_, _, _)
DirnameEnd(path, i, matchedSlash) ==
  IF i < 2 THEN 0
  ELSE IF path[i] = "/"
       THEN IF ~matchedSlash THEN i ELSE DirnameEnd(path, i - 1, matchedSlash)
       ELSE DirnameEnd(path, i - 1, FALSE)

Dirname(path) ==
  IF path = <<>> THEN <<".">>
  ELSE LET hasRoot == path[1] = "/"
           end == DirnameEnd(path, Len(path), TRUE)
       IN IF end = 0 THEN (IF hasRoot THEN <<"/">> ELSE <<".">>)
          ELSE IF hasRoot /\ end = 2 THEN <<"/", "/">>
          ELSE SubSeq(path, 1, end - 1)

\* ------------------------------------------------------------------------
\* Inputs of an invocation
\* ------------------------------------------------------------------------

\* napiBuildCommand
BuildCommands ==
  { <<"pnpm", " ", "build">>,
    <<"yarn", " ", "build", " ", "--", " ", "--release">> }

\* packageJsonPath
ManifestPaths ==
  { <<"crates", "/", "binding", "/", "package.json">>,
    <<"package.json">>,
    <<"/", "package.json">> }

\* White space a manifest may put around an identifier
Paddings == { <<"\n">>, <<" ", "\r", "\n">>, <<"\t">> }

\* Elements that napi.targets lists of every length up to MaxTargets mix
MixedPool ==
  { JsString(<<"x86_64-apple-darwin">>),
    JsString(<<"x86_64-apple-darwin", "\n">>),
    JsString(<<" ", "x86_64-unknown-linux-gnu", "\r", "\n">>),
    JsString(<<"x86_64-apple", "\n", "-darwin">>),
    JsString(<<"bogus-a">>),
    JsString(<<"bogus-b", "\r", "\n">>),
    JsString(<<"toString">>),
    JsNumber(42) }

\* Elements that are also tried alone: every key of the table, bare and
\* padded, every inherited property name, and some strings near a key
SinglePool ==
  {JsString(<<k>>) : k \in ConfigKeySet \cup ObjectPrototypeKeys}
    \cup {JsString(<<"\t", "\r">> \o <<k>> \o <<"\r", "\n">>) : k \in ConfigKeySet}
    \cup { JsString(<<>>), JsString(<<" ">>), JsString(<<"\n", "\n">>),
           JsString(<<"X86_64-APPLE-DARWIN">>),
           JsString(<<"x86_64-apple-darwin", " ", "x">>),
           JsString(<<"x86_64", " ", "-apple-darwin">>),
           JsString(<<"x86_64-unknown-linux">>),
           JsString(<<"\n", "constructor", " ">>),
           JsString(<<"aarch64", "\r", "\n", "-apple-", "\r", "darwin">>),
           JsString(<<"x86_64-apple", "\t", "-darwin">>),
           JsNull, JsNumber(0), JsValue("true", 0, <<>>, <<>>),
           JsValue("object", 0, <<>>, <<>>) }

TargetLists ==
  UNION {[1..k -> MixedPool] : k \in 0..MaxTargets}
    \cup {<<e>> : e \in SinglePool}

\* Values of napi.targets that are not arrays
NonListTargets ==
  { JsNull, JsValue("false", 0, <<>>, <<>>), JsValue("true", 0, <<>>, <<>>),
    JsNumber(0), JsNumber(42), JsString(<<>>),
    JsString(<<"x86_64-apple-darwin">>), JsValue("object", 0, <<>>, <<>>) }

NoPackageJson == PackageJson("undefined", FALSE, "undefined", FALSE, Undefined)

\* Documents JSON.parse can return
PackageJsons ==
  {PackageJson(root, FALSE, "undefined", FALSE, Undefined) :
     root \in {"null", "number", "string", "true", "array", "object"}}
    \cup {PackageJson("object", TRUE, napi, FALSE, Undefined) :
            napi \in {"null", "false", "number", "string", "array", "object"}}
    \cup {PackageJson("object", TRUE, "object", TRUE, v) :
            v \in NonListTargets \cup {JsArray(l) : l \in TargetLists}}

\* What packageJsonPath names.  exists is the answer of fs.existsSync,
\* directory says that the path names a directory, wellFormed that the
\* content is JSON text; text is the content when it is not JSON, json the
\* document the content denotes when it is.
FileAt(exists, directory, wellFormed, text, json) ==
  [exists |-> exists, directory |-> directory, wellFormed |-> wellFormed,
   text |-> text, json |-> json]

MissingFile == FileAt(FALSE, FALSE, FALSE, "", NoPackageJson)
DirectoryFile == FileAt(TRUE, TRUE, FALSE, "", NoPackageJson)
MalformedFile(text) == FileAt(TRUE, FALSE, FALSE, text, NoPackageJson)
JsonFile(json) == FileAt(TRUE, FALSE, TRUE, "", json)

\* File contents that are not JSON: an empty file, a bare word, a manifest
\* with a trailing comma
MalformedTexts ==
  { "", "nojson",
    "{\"napi\": {\"targets\": [\"x86_64-apple-darwin\",]}" }

\* The message of the SyntaxError JSON.parse throws on these contents
JsonParseMessage(text) ==
  CASE text = "" -> "Unexpected end of JSON input"
    [] text = "nojson" -> "Unexpected token 'o', \"nojson\" is not valid JSON"
    [] text = "{\"napi\": {\"targets\": [\"x86_64-apple-darwin\",]}"
         -> "Unexpected token ']', ...\"e-darwin\",]}\" is not valid JSON"

\* The message of the Error fs.readFileSync throws on a directory
ReadDirectoryMessage == "EISDIR: illegal operation on a directory, read"

\* The file at packageJsonPath: absent, a directory, not JSON, or the JSON
\* text of a document
Files ==
  {MissingFile, DirectoryFile}
    \cup {MalformedFile(text) : text \in MalformedTexts}
    \cup {JsonFile(d) : d \in PackageJsons}

\* ------------------------------------------------------------------------
\* The action
\* ------------------------------------------------------------------------

VARIABLES
  packageJsonPath,     \* parameter
  napiBuildCommand,    \* parameter
  file,                \* what the file system holds at packageJsonPath
  pc,                  \* position in action()
  packageJson,         \* const packageJson
  napiTargets,         \* const napiTargets
  idx,                 \* number of elements the for-of loop has taken
  cleanTarget,         \* const cleanTarget of the latest iteration
  config,              \* const config of the latest iteration
  matrixItems,         \* const matrixItems
  unsupportedTargets,  \* const unsupportedTargets
  matrixJson,          \* const matrixJson
  outputs,             \* calls of core.setOutput, in order
  failed,              \* calls of core.setFailed, in order
  error,               \* the exception in flight, then rethrown
  calls,               \* number of invocations started so far
  earlier              \* inputs and outcome of one finished invocation

vars == << packageJsonPath, napiBuildCommand, file, pc, packageJson,
           napiTargets, idx, cleanTarget, config, matrixItems,
           unsupportedTargets, matrixJson, outputs, failed, error,
           calls, earlier >>

inputs == <<packageJsonPath, napiBuildCommand, file>>

history == <<calls, earlier>>

NoError == [name |-> "", message |-> ""]
JsError(name, message) == [name |-> name, message |-> message]

\* No finished invocation is remembered
NoEarlier ==
  [call |-> 0, packageJsonPath |-> <<>>, napiBuildCommand |-> <<>>,
   file |-> MissingFile,
   pc |-> "", outputs |-> <<>>, failed |-> <<>>, error |-> NoError]

Init ==
  /\ packageJsonPath \in ManifestPaths
  /\ napiBuildCommand \in BuildCommands
  /\ file \in Files
  /\ pc = "existsSync"
  /\ packageJson = NoPackageJson
  /\ napiTargets = Undefined
  /\ idx = 0
  /\ cleanTarget = <<>>
  /\ config = NullConfig
  /\ matrixItems = <<>>
  /\ unsupportedTargets = <<>>
  /\ matrixJson = ""
  /\ outputs = <<>>
  /\ failed = <<>>
  /\ error = NoError
  /\ calls = 1
  /\ earlier = NoEarlier

\* throw inside the try block: control goes to the catch clause
Throw(e) == pc' = "catch" /\ error' = e

\* if (!fs.existsSync(packageJsonPath)) throw new Error(`... not found`)
CheckExists ==
  /\ pc = "existsSync"
  /\ IF ~file.exists
     THEN Throw(JsError("Error",
                 "Error: " \o Value(packageJsonPath) \o " not found"))
     ELSE pc' = "parse" /\ UNCHANGED error
  /\ UNCHANGED << inputs, history, packageJson, napiTargets, idx, cleanTarget, config,
                  matrixItems, unsupportedTargets, matrixJson, outputs, failed >>

\* fs.readFileSync and JSON.parse
ReadAndParse ==
  /\ pc = "parse"
  /\ IF file.directory
     THEN /\ Throw(JsError("Error", ReadDirectoryMessage))
          /\ UNCHANGED packageJson
     ELSE IF ~file.wellFormed
     THEN /\ Throw(JsError("SyntaxError", JsonParseMessage(file.text)))
          /\ UNCHANGED packageJson
     ELSE /\ packageJson' = file.json
          /\ pc' = "extract"
          /\ UNCHANGED error
  /\ UNCHANGED << inputs, history, napiTargets, idx, cleanTarget, config, matrixItems,
                  unsupportedTargets, matrixJson, outputs, failed >>

\* const napiTargets = packageJson?.napi?.targets, and the guard on it
ExtractTargets ==
  /\ pc = "extract"
  /\ LET found == OptionalChainTargets(packageJson) IN
     /\ napiTargets' = found
     /\ IF ~Truthy(found) \/ ~IsArray(found) \/ JsLength(found) = 0
        THEN Throw(JsError("Error",
                    "Error: No napi.targets found in package.json"))
        ELSE pc' = "loop" /\ UNCHANGED error
  /\ UNCHANGED << inputs, history, packageJson, idx, cleanTarget, config, matrixItems,
                  unsupportedTargets, matrixJson, outputs, failed >>

\* target.trim on a value that is not a string
TrimTypeError(target) ==
  IF target.t \in {"null", "undefined"}
  THEN JsError("TypeError", "Cannot read properties of " \o target.t
                               \o " (reading 'trim')")
  ELSE JsError("TypeError", "target.trim is not a function")

\* one iteration of for (const target of napiTargets)
ProcessTarget ==
  /\ pc = "loop"
  /\ idx < Len(napiTargets.a)
  /\ LET target == napiTargets.a[idx + 1] IN
     /\ idx' = idx + 1
     /\ IF target.t # "string"
        THEN /\ Throw(TrimTypeError(target))
             /\ UNCHANGED <<cleanTarget, config, matrixItems, unsupportedTargets>>
        ELSE LET clean == CleanTarget(target.s)
                 found == getPlatformConfig(clean, napiBuildCommand)
             IN /\ cleanTarget' = clean
                /\ config' = found
                /\ IF ConfigTruthy(found)
                   THEN /\ matrixItems' = Append(matrixItems, found)
                        /\ UNCHANGED unsupportedTargets
                   ELSE /\ unsupportedTargets' = Append(unsupportedTargets, clean)
                        /\ UNCHANGED matrixItems
                /\ UNCHANGED <<pc, error>>
  /\ UNCHANGED << inputs, history, packageJson, napiTargets, matrixJson, outputs, failed >>

\* the loop is over: if (unsupportedTargets.length > 0) throw ...
CheckUnsupported ==
  /\ pc = "loop"
  /\ idx = Len(napiTargets.a)
  /\ IF Len(unsupportedTargets) > 0
     THEN Throw(JsError("Error", "Error: Unsupported targets found: "
                                   \o Join(unsupportedTargets, ", ")))
     ELSE pc' = "stringify" /\ UNCHANGED error
  /\ UNCHANGED << inputs, history, packageJson, napiTargets, idx, cleanTarget, config,
                  matrixItems, unsupportedTargets, matrixJson, outputs, failed >>

\* const matrix = { settings: matrixItems }; matrixJson = JSON.stringify(matrix)
GenerateMatrix ==
  /\ pc = "stringify"
  /\ matrixJson' = StringifyMatrix(matrixItems)
  /\ pc' = "setMatrix"
  /\ UNCHANGED << inputs, history, packageJson, napiTargets, idx, cleanTarget, config,
                  matrixItems, unsupportedTargets, outputs, failed, error >>

\* core.setOutput(name, value)
SetOutput(name, value) == outputs' = Append(outputs, [name |-> name, value |-> value])

\* core.setOutput('matrix', matrixJson)
SetOutputMatrix ==
  /\ pc = "setMatrix"
  /\ SetOutput("matrix", matrixJson)
  /\ pc' = "setTargets"
  /\ UNCHANGED << inputs, history, packageJson, napiTargets, idx, cleanTarget, config,
                  matrixItems, unsupportedTargets, matrixJson, failed, error >>

\* core.setOutput('targets', JSON.stringify(napiTargets))
SetOutputTargets ==
  /\ pc = "setTargets"
  /\ SetOutput("targets", StringifyTargets(napiTargets.a))
  /\ pc' = "setDirectory"
  /\ UNCHANGED << inputs, history, packageJson, napiTargets, idx, cleanTarget, config,
                  matrixItems, unsupportedTargets, matrixJson, failed, error >>

\* core.setOutput('binding-directory', path.dirname(packageJsonPath))
SetOutputBindingDirectory ==
  /\ pc = "setDirectory"
  /\ SetOutput("binding-directory", Value(Dirname(packageJsonPath)))
  /\ pc' = "returned"
  /\ UNCHANGED << inputs, history, packageJson, napiTargets, idx, cleanTarget, config,
                  matrixItems, unsupportedTargets, matrixJson, failed, error >>

\* Catch as it would be if the error were rethrown without core.setFailed
CatchWithoutSetFailed ==
  /\ pc = "catch"
  /\ pc' = "thrown"
  /\ UNCHANGED << inputs, history, packageJson, napiTargets, idx, cleanTarget, config,
                  matrixItems, unsupportedTargets, matrixJson, outputs, failed,
                  error >>

\* catch (error) { core.setFailed(error.message); throw error; }
Catch ==
  /\ pc = "catch"
  /\ failed' = Append(failed, error.message)
  /\ pc' = "thrown"
  /\ UNCHANGED << inputs, history, packageJson, napiTargets, idx, cleanTarget, config,
                  matrixItems, unsupportedTargets, matrixJson, outputs, error >>

\* ------------------------------------------------------------------------
\* Invocations one after the other
\* ------------------------------------------------------------------------

\* (packageJsonPath, napiBuildCommand) of the repeated invocations
RepeatCalls == ManifestPaths \X BuildCommands

\* What the file holds at the time of a repeated invocation
RepeatFiles ==
  { MissingFile, DirectoryFile, MalformedFile("nojson"),
    JsonFile(PackageJson("object", TRUE, "object", FALSE, Undefined)),
    JsonFile(PackageJson("object", TRUE, "object", TRUE,
                JsArray(<< JsString(<<"toString">>), JsNumber(42) >>))),
    JsonFile(PackageJson("object", TRUE, "object", TRUE,
                JsArray(<< JsString(<<" ", "x86_64-unknown-linux-gnu", "\r", "\n">>),
                           JsString(<<"x86_64-apple", "\n", "-darwin">>),
                           JsString(<<"toString">>) >>))),
    JsonFile(PackageJson("object", TRUE, "object", TRUE,
                JsArray(<< JsString(<<"x86_64-apple-darwin", "\n">>),
                           JsString(<<"x86_64-apple-darwin">>) >>))),
    JsonFile(PackageJson("object", TRUE, "object", TRUE,
                JsArray(<< JsString(<<"bogus-a">>),
                           JsString(<<"x86_64-apple-darwin">>),
                           JsString(<<"bogus-b", "\r", "\n">>) >>))) }

\* The invocation that has just returned or thrown, as a later one sees it
Finished ==
  [call |-> calls, packageJsonPath |-> packageJsonPath,
   napiBuildCommand |-> napiBuildCommand, file |-> file, pc |-> pc,
   outputs |-> outputs, failed |-> failed, error |-> error]

\* Invoke as it would be if matrixItems were a module-level array that the
\* calls share
InvokeSharingMatrixItems ==
  /\ pc \in {"returned", "thrown"}
  /\ calls < MaxInvocations
  /\ calls' = calls + 1
  /\ earlier' \in {earlier, Finished}
  /\ \E c \in RepeatCalls : packageJsonPath' = c[1] /\ napiBuildCommand' = c[2]
  /\ file' \in RepeatFiles
  /\ pc' = "existsSync"
  /\ packageJson' = NoPackageJson
  /\ napiTargets' = Undefined
  /\ idx' = 0
  /\ cleanTarget' = <<>>
  /\ config' = NullConfig
  /\ unsupportedTargets' = <<>>
  /\ matrixJson' = ""
  /\ outputs' = <<>>
  /\ failed' = <<>>
  /\ error' = NoError
  /\ UNCHANGED matrixItems

\* The caller calls action() again after it has returned or thrown, with
\* any parameters and any file content: every local of the function is
\* created anew, the calls made on core are counted from this call on.
Invoke ==
  /\ pc \in {"returned", "thrown"}
  /\ calls < MaxInvocations
  /\ calls' = calls + 1
  /\ earlier' \in {earlier, Finished}
  /\ \E c \in RepeatCalls : packageJsonPath' = c[1] /\ napiBuildCommand' = c[2]
  /\ file' \in RepeatFiles
  /\ pc' = "existsSync"
  /\ packageJson' = NoPackageJson
  /\ napiTargets' = Undefined
  /\ idx' = 0
  /\ cleanTarget' = <<>>
  /\ config' = NullConfig
  /\ matrixItems' = <<>>
  /\ unsupportedTargets' = <<>>
  /\ matrixJson' = ""
  /\ outputs' = <<>>
  /\ failed' = <<>>
  /\ error' = NoError

Next ==
  \/ CheckExists
  \/ ReadAndParse
  \/ ExtractTargets
  \/ ProcessTarget
  \/ CheckUnsupported
  \/ GenerateMatrix
  \/ SetOutputMatrix
  \/ SetOutputTargets
  \/ SetOutputBindingDirectory
  \/ Catch

Spec == Init /\ [][Next]_vars

\* A first invocation on the repeated inputs
InitRepeat ==
  /\ Init
  /\ <<packageJsonPath, napiBuildCommand>> \in RepeatCalls
  /\ file \in RepeatFiles

NextRepeat ==
  \/ Next
  \/ Invoke

\* Up to MaxInvocations invocations, one after the other
SpecRepeat == InitRepeat /\ [][NextRepeat]_vars

\* ------------------------------------------------------------------------
\* Vocabulary of the properties
\* ------------------------------------------------------------------------

\* The declared list, once napi.targets has been read as an array
Declared == napiTargets.a

\* The identifier has an entry in the fixed table of sixteen platforms
HasRegistryEntry(id) == Value(id) \in ConfigKeySet

\* core.setOutput was called for this name
Published(name) == \E k \in 1..Len(outputs) : outputs[k].name = name

NoTargetsMessage == "Error: No napi.targets found in package.json"

UnsupportedMessage(ids) == "Error: Unsupported targets found: " \o Join(ids, ", ")

\* The run got past the parse and found a non-empty array
InLoopOrLater == pc \notin {"existsSync", "parse", "extract"} /\ IsArray(napiTargets)
                   /\ Len(Declared) > 0

\* The latest iteration handled a string, so cleanTarget and config are its
Looked == InLoopOrLater /\ idx >= 1 /\ Declared[idx].t = "string"

\* ------------------------------------------------------------------------
\* C1
\* ------------------------------------------------------------------------

\* C1 (atomicity): a manifest whose napi.targets holds at least one
\* identifier without a registry entry after cleaning never gets any output
\* published, and the matrix is published only when the unsupported list is
\* empty.
C1_Atomicity ==
  /\ (InLoopOrLater /\ \E i \in 1..Len(Declared) :
                          /\ Declared[i].t = "string"
                          /\ ~HasRegistryEntry(CleanTarget(Declared[i].s)))
       => outputs = <<>>
  /\ Published("matrix") => unsupportedTargets = <<>>

\* ------------------------------------------------------------------------
\* C2
\* ------------------------------------------------------------------------

\* The cleaned declared identifiers that have no registry entry, in order
RECURSIVE UnresolvedOf(_)
UnresolvedOf(list) ==
  IF list = <<>> THEN <<>>
  ELSE IF Head(list).t = "string" /\ ~HasRegistryEntry(CleanTarget(Head(list).s))
       THEN <<CleanTarget(Head(list).s)>> \o UnresolvedOf(Tail(list))
       ELSE UnresolvedOf(Tail(list))

\* C2 (exhaustive error aggregation): when at least one declared identifier
\* is unresolved, the run ends in a failure whose message lists all the
\* unresolved identifiers in manifest order, duplicates kept and no
\* supported identifier among them, after the loop has visited every
\* declared element.
C2_ExhaustiveAggregation ==
  (InLoopOrLater /\ UnresolvedOf(Declared) # <<>> /\ pc \in {"thrown", "returned"})
    => /\ pc = "thrown"
       /\ idx = Len(Declared)
       /\ failed = <<UnsupportedMessage(UnresolvedOf(Declared))>>

\* ------------------------------------------------------------------------
\* C3
\* ------------------------------------------------------------------------

\* C3 (order preservation): in a successful run the published matrix has one
\* settings entry per declared element, and the i-th entry's target is the
\* cleaned i-th declared identifier.
C3_OrderPreserved ==
  pc = "returned"
    => /\ outputs[1] = [name |-> "matrix", value |-> StringifyMatrix(matrixItems)]
       /\ Len(matrixItems) = Len(Declared)
       /\ \A i \in 1..Len(Declared) :
            /\ matrixItems[i].kind = "entry"
            /\ Value(matrixItems[i].target) = Value(CleanTarget(Declared[i].s))

\* ------------------------------------------------------------------------
\* C4
\* ------------------------------------------------------------------------

\* C4 (lookup): the lookup answers null for every string that is not one of
\* the sixteen keys and a {host, target, build} record only for those keys;
\* a declared string outside the table is put on the unsupported list and
\* not in the matrix.
C4_LookupExact ==
  Looked
    => /\ config.kind = (IF HasRegistryEntry(cleanTarget) THEN "entry" ELSE "null")
       /\ ~HasRegistryEntry(cleanTarget)
            => /\ unsupportedTargets # <<>>
               /\ unsupportedTargets[Len(unsupportedTargets)] = cleanTarget
               /\ \A k \in 1..Len(matrixItems) : matrixItems[k].kind = "entry"

\* ------------------------------------------------------------------------
\* C5
\* ------------------------------------------------------------------------

\* The flags the claim gives for each supported identifier
C5_Suffix(t) ==
  CASE t = "x86_64-unknown-linux-gnu" -> " --use-napi-cross"
    [] t \in {"x86_64-unknown-linux-musl", "aarch64-unknown-linux-musl"} -> " -x"
    [] t \in {"aarch64-unknown-linux-gnu", "armv7-unknown-linux-gnueabihf",
              "x86_64-unknown-freebsd", "riscv64gc-unknown-linux-gnu",
              "riscv64gc-unknown-linux-musl"} -> " --use-cross"
    [] t = "aarch64-unknown-freebsd"
         -> " --use-cross -- -Zbuild-std=core,std,alloc,proc_macro,panic_abort"
    [] OTHER -> ""

\* C5 (flag composition): for a supported identifier t and base command b
\* the entry's build string is b, " --target ", t and t's fixed suffix, and
\* the entry's target is t; x86_64-unknown-linux-gnu with "pnpm build" gives
\* "pnpm build --target x86_64-unknown-linux-gnu --use-napi-cross".
C5_FlagComposition ==
  (Looked /\ HasRegistryEntry(cleanTarget))
    => LET t == Value(cleanTarget) IN
       /\ config.kind = "entry"
       /\ Value(config.target) = t
       /\ Value(config.build)
            = Value(napiBuildCommand) \o " --target " \o t \o C5_Suffix(t)
       /\ (t = "x86_64-unknown-linux-gnu" /\ Value(napiBuildCommand) = "pnpm build")
            => Value(config.build)
                 = "pnpm build --target x86_64-unknown-linux-gnu --use-napi-cross"
       /\ matrixItems[Len(matrixItems)] = config

\* A run that resolved x86_64-unknown-linux-gnu, declared with white space
\* around it, under the base command "pnpm build"
C5_Witness ==
  /\ Looked
  /\ Value(cleanTarget) = "x86_64-unknown-linux-gnu"
  /\ Value(napiBuildCommand) = "pnpm build"
  /\ config.kind = "entry"
  /\ pc = "returned"

\* ------------------------------------------------------------------------
\* C6
\* ------------------------------------------------------------------------

\* C6 (white-space tolerance): the declared string just handled, with any
\* white space or line terminators put around it, cleans to the same
\* identifier and gets the same lookup answer as the run computed for it;
\* cleaning the cleaned identifier changes nothing.
C6_WhitespaceTolerance ==
  Looked
    => /\ \A before \in Paddings, after \in Paddings :
            LET padded == before \o Declared[idx].s \o after IN
            /\ Value(CleanTarget(padded)) = Value(cleanTarget)
            /\ getPlatformConfig(CleanTarget(padded), napiBuildCommand) = config
       /\ CleanTarget(cleanTarget) = cleanTarget

\* x86_64-apple-darwin declared with a trailing line feed was resolved to
\* the entry of x86_64-apple-darwin
C6_Witness ==
  /\ Looked
  /\ Declared[idx].s = <<"x86_64-apple-darwin", "\n">>
  /\ config.kind = "entry"
  /\ Value(config.target) = "x86_64-apple-darwin"
  /\ matrixItems # <<>>

\* ------------------------------------------------------------------------
\* C7
\* ------------------------------------------------------------------------

\* The manifest exists and parses, and napi is absent or null, or
\* napi.targets is absent, not a list or an empty list
C7_NoTargetsDeclared ==
  /\ file.exists
  /\ file.wellFormed
  /\ \/ file.json.root # "object"
     \/ ~file.json.hasNapi
     \/ file.json.napi # "object"
     \/ ~file.json.hasTargets
     \/ file.json.targets.t # "array"
     \/ file.json.targets.a = <<>>

\* C7 (missing-field handling): such a run never enters the loop, never
\* publishes an output, and fails with the no-targets message through
\* core.setFailed, raising no other exception.
C7_MissingField ==
  C7_NoTargetsDeclared
    => /\ pc \in {"existsSync", "parse", "extract", "catch", "thrown"}
       /\ idx = 0
       /\ outputs = <<>>
       /\ pc \in {"catch", "thrown"} => error = JsError("Error", NoTargetsMessage)
       /\ pc = "thrown" => failed = <<NoTargetsMessage>>

\* The manifest {"napi": {}} has failed with the no-targets message
C7_Witness ==
  /\ file.exists /\ file.wellFormed
  /\ file.json = PackageJson("object", TRUE, "object", FALSE, Undefined)
  /\ pc = "thrown"
  /\ failed = <<NoTargetsMessage>>

\* ------------------------------------------------------------------------
\* C8
\* ------------------------------------------------------------------------

\* C8 (closed failure taxonomy): a failing run fails with the not-found,
\* parse, no-targets or unsupported-targets failure; when the manifest exists
\* and parses, with the no-targets failure or with the unsupported-targets
\* failure that carries the offending identifiers.  A path that names a
\* directory does not resolve to a readable file: its read failure counts
\* as the not-found kind.
C8_ClosedTaxonomy ==
  pc \in {"catch", "thrown"}
    => \/ ~file.exists
            /\ error.message = "Error: " \o Value(packageJsonPath) \o " not found"
       \/ file.exists /\ file.directory /\ error.message = ReadDirectoryMessage
       \/ /\ file.exists /\ ~file.directory /\ ~file.wellFormed
          /\ error.name = "SyntaxError"
          /\ error.message = JsonParseMessage(file.text)
       \/ file.exists /\ file.wellFormed /\ error.message = NoTargetsMessage
       \/ /\ file.exists /\ file.wellFormed
          /\ unsupportedTargets # <<>>
          /\ error.message = UnsupportedMessage(unsupportedTargets)

\* ------------------------------------------------------------------------
\* C9
\* ------------------------------------------------------------------------

\* The directory portion of a path with no trailing or doubled "/"
C9_DirectoryPortion(path) ==
  IF \A k \in 1..Len(path) : path[k] # "/" THEN "."
  ELSE LET last == CHOOSE k \in 1..Len(path) :
                     path[k] = "/" /\ \A m \in (k + 1)..Len(path) : path[m] # "/"
       IN IF last = 1 THEN "/" ELSE Value(SubSeq(path, 1, last - 1))

\* The JSON text of the declared strings as they stand in the manifest
RECURSIVE C9_Verbatim(_)
C9_Verbatim(list) ==
  IF list = <<>> THEN ""
  ELSE "\"" \o EscapeString(Head(list).s) \o "\""
         \o (IF Len(list) = 1 THEN "" ELSE ",") \o C9_Verbatim(Tail(list))

\* C9 (auxiliary outputs): on success the targets output is the JSON text
\* of the declared strings, untrimmed and in order, and the directory output
\* is the directory portion of the manifest path.
C9_AuxiliaryOutputs ==
  pc = "returned"
    => /\ Len(outputs) = 3
       /\ outputs[2] = [name |-> "targets",
                        value |-> "[" \o C9_Verbatim(Declared) \o "]"]
       /\ outputs[3] = [name |-> "binding-directory",
                        value |-> C9_DirectoryPortion(packageJsonPath)]

\* A successful run whose declared strings differ from the cleaned ones, on
\* a manifest in a subdirectory
C9_Witness ==
  /\ pc = "returned"
  /\ Len(Declared) >= 2
  /\ \E i \in 1..Len(Declared) : Declared[i].s # CleanTarget(Declared[i].s)
  /\ outputs[3].value = "crates/binding"

\* ------------------------------------------------------------------------
\* C10
\* ------------------------------------------------------------------------

\* The Supported Targets table of the README: target and host runner
ReadmeSupportedTargets ==
  << <<"x86_64-apple-darwin", "macos-latest">>,
     <<"aarch64-apple-darwin", "macos-latest">>,
     <<"x86_64-pc-windows-msvc", "windows-latest">>,
     <<"i686-pc-windows-msvc", "windows-latest">>,
     <<"aarch64-pc-windows-msvc", "windows-latest">>,
     <<"x86_64-unknown-linux-gnu", "ubuntu-22.04">>,
     <<"x86_64-unknown-linux-musl", "ubuntu-22.04">>,
     <<"aarch64-unknown-linux-gnu", "ubuntu-22.04">>,
     <<"aarch64-unknown-linux-musl", "ubuntu-22.04">>,
     <<"armv7-unknown-linux-gnueabihf", "ubuntu-22.04">>,
     <<"aarch64-linux-android", "ubuntu-22.04">>,
     <<"armv7-linux-androideabi", "ubuntu-22.04">> >>

\* C10 (documented hosts): a declared identifier that cleans to a target of
\* the README table resolves to an entry whose host is the Host Runner of
\* its row.
C10_ReadmeHosts ==
  \A r \in 1..Len(ReadmeSupportedTargets) :
    (Looked /\ Value(cleanTarget) = ReadmeSupportedTargets[r][1])
      => /\ config.kind = "entry"
         /\ Value(config.host) = ReadmeSupportedTargets[r][2]
         /\ matrixItems # <<>>
         /\ matrixItems[Len(matrixItems)] = config

\* armv7-linux-androideabi, the last row of the table, was resolved and the
\* run succeeded
C10_Witness ==
  /\ Looked
  /\ Value(cleanTarget) = "armv7-linux-androideabi"
  /\ Value(config.host) = "ubuntu-22.04"
  /\ pc = "returned"

\* ------------------------------------------------------------------------
\* C11
\* ------------------------------------------------------------------------

ReadmeTargetSet ==
  {ReadmeSupportedTargets[r][1] : r \in 1..Len(ReadmeSupportedTargets)}

\* C11 (documented failure): a run whose napi.targets holds an element that
\* is not, once cleaned, one of the twelve targets of the README table ends
\* in a failure.
C11_FailsOutsideReadme ==
  (InLoopOrLater /\ pc \in {"returned", "thrown"}
     /\ \E i \in 1..Len(Declared) :
          \/ Declared[i].t # "string"
          \/ Value(CleanTarget(Declared[i].s)) \notin ReadmeTargetSet)
    => pc = "thrown" /\ failed # <<>>

\* ------------------------------------------------------------------------
\* C13
\* ------------------------------------------------------------------------

IsLineBreak(p) == p \in {"\n", "\r"}

\* The string without its leading and trailing white space, interior kept
C13_Strip(s) ==
  LET solid == {k \in 1..Len(s) : s[k] \notin WhiteSpace} IN
  IF solid = {} THEN <<>>
  ELSE SubSeq(s, CHOOSE k \in solid : \A m \in solid : k <= m,
                 CHOOSE k \in solid : \A m \in solid : k >= m)

C13_HasInteriorLineBreak(s) ==
  \E k \in 1..Len(C13_Strip(s)) : IsLineBreak(C13_Strip(s)[k])

\* C13 as claimed (interior unchanged): the identifier handed to the
\* registry is the declared string without its surrounding white space, and
\* a declared string with an interior line terminator is not resolved but
\* reported as unsupported.
C13_InteriorUnchanged ==
  Looked
    => /\ Value(cleanTarget) = Value(C13_Strip(Declared[idx].s))
       /\ C13_HasInteriorLineBreak(Declared[idx].s)
            => /\ config = NullConfig
               /\ unsupportedTargets # <<>>
               /\ unsupportedTargets[Len(unsupportedTargets)] = cleanTarget

\* C13 as amended: the identifier handed to the registry is the declared
\* string without its surrounding white space and without any line
\* terminator, interior ones included, every other interior character kept;
\* a declared string whose parts around interior line terminators join to a
\* key of the table is resolved to that key's entry.
C13_LineBreaksRemoved ==
  Looked
    => LET stripped == C13_Strip(Declared[idx].s)
           joined == SelectSeq(stripped, LAMBDA p : ~IsLineBreak(p))
       IN /\ cleanTarget = joined
          /\ ~C13_HasInteriorLineBreak(Declared[idx].s) => cleanTarget = stripped
          /\ Value(joined) \in ConfigKeySet
               => /\ config.kind = "entry"
                  /\ Value(config.target) = Value(joined)
                  /\ matrixItems[Len(matrixItems)] = config

\* "aarch64\r\n-apple-\rdarwin", with two interior line terminators, was
\* resolved to the entry of aarch64-apple-darwin and the run succeeded
C13_Witness ==
  /\ Looked
  /\ Declared[idx].s = <<"aarch64", "\r", "\n", "-apple-", "\r", "darwin">>
  /\ config.kind = "entry"
  /\ Value(config.target) = "aarch64-apple-darwin"
  /\ pc = "returned"

\* ------------------------------------------------------------------------
\* C14
\* ------------------------------------------------------------------------

OutputOrder == <<"matrix", "targets", "binding-directory">>

\* What has been published and reported at each point of a run
C14_Outcome ==
  /\ Len(outputs) <= Len(OutputOrder)
  /\ \A k \in 1..Len(outputs) : outputs[k].name = OutputOrder[k]
  /\ Len(failed) <= 1
  /\ outputs # <<>> => failed = <<>> /\ error = NoError
  /\ pc = "returned" => Len(outputs) = 3 /\ failed = <<>> /\ error = NoError
  /\ pc = "catch" => failed = <<>> /\ outputs = <<>> /\ error # NoError
  /\ pc = "thrown" => failed = <<error.message>> /\ outputs = <<>> /\ error # NoError

\* Some step of the call can be taken: the loop has an element left to
\* process, or one of the other steps is enabled
C14_CanStep ==
  \/ pc = "loop" /\ idx < Len(napiTargets.a)
  \/ ENABLED (CheckExists \/ ReadAndParse \/ ExtractTargets \/ CheckUnsupported
                \/ GenerateMatrix \/ SetOutputMatrix \/ SetOutputTargets
                \/ SetOutputBindingDirectory \/ Catch)

\* C14 (one terminal outcome): the outputs are published in the order
\* matrix, targets, binding-directory, each once, and only in a run that
\* never calls core.setFailed; a run that returns has published all three
\* and raised nothing; a run that throws has called core.setFailed once,
\* with the message of the error it rethrows, and has published nothing;
\* a run stops only by returning or by throwing.
C14_OneTerminalOutcome ==
  /\ C14_Outcome
  /\ pc \notin {"returned", "thrown"} => C14_CanStep

\* A run that resolved one identifier and rejected another has thrown the
\* unsupported-targets error after one core.setFailed and no output
C14_Witness ==
  /\ pc = "thrown"
  /\ matrixItems # <<>>
  /\ unsupportedTargets # <<>>
  /\ failed = <<UnsupportedMessage(unsupportedTargets)>>
  /\ outputs = <<>>

\* ------------------------------------------------------------------------
\* C12
\* ------------------------------------------------------------------------

\* The running invocation has the manifest path, the manifest content and
\* the base command of the remembered one
C12_SameInputs ==
  /\ earlier.call > 0
  /\ packageJsonPath = earlier.packageJsonPath
  /\ napiBuildCommand = earlier.napiBuildCommand
  /\ file = earlier.file

\* C12 (determinism, independence): an invocation with the same manifest
\* content, manifest path and base command as an earlier one ends the same
\* way, with the same failure message or the same three outputs in the same
\* order, whatever was invoked in between.
C12_Determinism ==
  (C12_SameInputs /\ pc \in {"returned", "thrown"})
    => /\ pc = earlier.pc
       /\ outputs = earlier.outputs
       /\ failed = earlier.failed
       /\ error = earlier.error

\* The third invocation succeeded on the inputs of the first, one other
\* invocation having run in between
C12_Witness ==
  /\ C12_SameInputs
  /\ earlier.call = 1
  /\ calls = 3
  /\ pc = "returned"
  /\ Len(outputs) = 3

====
